---- MODULE Spec2Model ----
(***************************************************************************)
(* pipe-syncer: replay of source commits onto a diverged target tree with  *)
(* a context-driven patcher (apply.py) driven by the replay loop (sync.py).*)
(*                                                                         *)
(* A file is a record [lines, nl]: its lines without their newline and     *)
(* whether its last line ends with a newline.  A hunk is a record of four  *)
(* line sequences.  A diff body is a sequence of @@ blocks, each block a   *)
(* sequence of lines [tag, text] where tag is the line's first character.  *)
(* The numbers of an @@ header are stored by the code and never read, so   *)
(* they are not part of a block here.                                      *)
(***************************************************************************)
EXTENDS Integers, Sequences, FiniteSets, TLC

VARIABLES
    fs,                  \* working tree of the target repo: path -> file
    dirs,                \* directories that exist in the working tree
    head_tree,           \* tree of the commit the sync branch points at
    log,                 \* commits made on the sync branch, oldest first
    commit_hash,         \* sync.py: commit_hash of the running iteration
    applied_commits,     \* sync.py: hashes found after the marker
    diff_index,          \* the entries handed to CustomApply.apply
    di,                  \* apply: number of entries already handled
    patch_applied,       \* apply: patch_applied
    dry_run,             \* CustomApply.dry_run
    file_lines,          \* _handle_modify: in-memory buffer
    diff_chunks,         \* _handle_modify: parsed hunks
    ci,                  \* _handle_modify: number of chunks already handled
    all_patches_applied, \* _handle_modify: all_patches_applied
    start_position,      \* _handle_modify: result of the last search
    replace_len,         \* _handle_modify: result of the last search
    pc                   \* position of the program

vars == <<fs, dirs, head_tree, log, commit_hash, applied_commits,
          diff_index, di, patch_applied, dry_run, file_lines, diff_chunks,
          ci, all_patches_applied, start_position, replace_len, pc>>

repoVars   == <<head_tree, log, commit_hash, applied_commits>>
applyVars  == <<diff_index, di, patch_applied>>
modifyVars == <<file_lines, diff_chunks, ci, all_patches_applied,
                start_position, replace_len>>

\* ------------------------------------------------------------------------
\* Bounds of the model
\* ------------------------------------------------------------------------
MaxFileLen == 5     \* longest buffer of the exhaustive hunk search
MaxCtx     == 2     \* longest before/after context of an enumerated hunk
MaxEdit    == 1     \* longest removed/added run of an enumerated hunk
BaseLen    == 5     \* lines of the source file the generated diffs edit
Unified    == 2     \* most context lines a generated diff carries
MaxBlockLen == 5    \* longest @@ block handed to the parser
MaxCommits == 2     \* source commits of one run
MaxEntries == 2     \* most entries of one source commit

Letters == {"a", "b"}

Min(x, y) == IF x < y THEN x ELSE y
Max(x, y) == IF x > y THEN x ELSE y

SeqsUpTo(S, n) == UNION {[1..k -> S] : k \in 0..n}

\* Python's s[a:b] for 0 <= a, with the end cut at len(s).
Slice(s, a, b) == SubSeq(s, a + 1, Min(b, Len(s)))

RECURSIVE Flatten(_)
Flatten(ss) == IF ss = <<>> THEN <<>> ELSE Head(ss) \o Flatten(Tail(ss))

\* ------------------------------------------------------------------------
\* apply.py: DiffHunk and _extract_diff_chunks
\* ------------------------------------------------------------------------
DiffHunk(before, after, removed, added) ==
    [before_context |-> before, after_context |-> after,
     removed_lines |-> removed, added_lines |-> added]

ParseStart ==
    [before_context |-> <<>>, after_context |-> <<>>,
     removed_lines |-> <<>>, added_lines |-> <<>>,
     after_modifications |-> FALSE, last_line_was_context |-> FALSE,
     chunks |-> <<>>]

CurrentHunk(st) ==
    DiffHunk(st.before_context, st.after_context, st.removed_lines, st.added_lines)

\* A split that would start the next hunk with no context before it.
SplitHunkUnseeded(st) ==
    [st EXCEPT !.chunks = Append(@, CurrentHunk(st)),
               !.before_context = <<>>,
               !.after_context = <<>>,
               !.removed_lines = <<>>,
               !.added_lines = <<>>]

\* The split at lines 148-158: close the running hunk, seed the next one.
SplitHunk(st) ==
    [st EXCEPT !.chunks = Append(@, CurrentHunk(st)),
               !.before_context = st.after_context,
               !.after_context = <<>>,
               !.removed_lines = <<>>,
               !.added_lines = <<>>]

\* An iteration that never closes the running hunk.
ParseLineUnsplit(st, line) ==
    IF line.tag = "\\" THEN st
    ELSE IF line.tag \in {"+", "-"} THEN
        LET s2 == IF line.tag = "+"
                  THEN [st EXCEPT !.added_lines = Append(@, line.text)]
                  ELSE [st EXCEPT !.removed_lines = Append(@, line.text)]
        IN [s2 EXCEPT !.after_modifications = TRUE,
                      !.last_line_was_context = FALSE]
    ELSE
        LET s1 == IF st.after_modifications
                  THEN [st EXCEPT !.after_context = Append(@, line.text)]
                  ELSE [st EXCEPT !.before_context = Append(@, line.text)]
        IN [s1 EXCEPT !.last_line_was_context = TRUE]

\* An iteration that reads a marker line as a context line.
ParseLineMarkerAsContext(st, line) ==
    IF line.tag \in {"+", "-"} THEN
        LET s1 == IF st.last_line_was_context
                     /\ (st.removed_lines # <<>> \/ st.added_lines # <<>>)
                  THEN SplitHunk(st) ELSE st
            s2 == IF line.tag = "+"
                  THEN [s1 EXCEPT !.added_lines = Append(@, line.text)]
                  ELSE [s1 EXCEPT !.removed_lines = Append(@, line.text)]
        IN [s2 EXCEPT !.after_modifications = TRUE,
                      !.last_line_was_context = FALSE]
    ELSE
        LET s1 == IF st.after_modifications
                  THEN [st EXCEPT !.after_context = Append(@, line.text)]
                  ELSE [st EXCEPT !.before_context = Append(@, line.text)]
        IN [s1 EXCEPT !.last_line_was_context = TRUE]

\* One iteration of the loop over content_lines.
ParseLine(st, line) ==
    IF line.tag = "\\" THEN st
    ELSE IF line.tag \in {"+", "-"} THEN
        LET s1 == IF st.last_line_was_context
                     /\ (st.removed_lines # <<>> \/ st.added_lines # <<>>)
                  THEN SplitHunk(st) ELSE st
            s2 == IF line.tag = "+"
                  THEN [s1 EXCEPT !.added_lines = Append(@, line.text)]
                  ELSE [s1 EXCEPT !.removed_lines = Append(@, line.text)]
        IN [s2 EXCEPT !.after_modifications = TRUE,
                      !.last_line_was_context = FALSE]
    ELSE
        LET s1 == IF st.after_modifications
                  THEN [st EXCEPT !.after_context = Append(@, line.text)]
                  ELSE [st EXCEPT !.before_context = Append(@, line.text)]
        IN [s1 EXCEPT !.last_line_was_context = TRUE]

RECURSIVE ParseLines(_, _)
ParseLines(st, lines) ==
    IF lines = <<>> THEN st
    ELSE ParseLines(ParseLine(st, Head(lines)), Tail(lines))

\* The hunks of one @@ block.
ParseBlock(block) ==
    LET st == ParseLines(ParseStart, block)
    IN Append(st.chunks, CurrentHunk(st))

_extract_diff_chunks(diff) ==
    Flatten([k \in 1..Len(diff) |-> ParseBlock(diff[k])])

\* ------------------------------------------------------------------------
\* apply.py: _search_context
\* ------------------------------------------------------------------------
\* [(i, j) for i in range(start_len + 1) for j in range(end_len + 1)]
AllPairs(start_len, end_len) ==
    [k \in 1..((start_len + 1) * (end_len + 1)) |->
        <<(k - 1) \div (end_len + 1), (k - 1) % (end_len + 1)>>]

RECURSIVE SumsFrom(_, _)
SumsFrom(pairs, s) ==
    IF s < 0 THEN <<>>
    ELSE SelectSeq(pairs, LAMBDA c : c[1] + c[2] = s) \o SumsFrom(pairs, s - 1)

RECURSIVE SumsUpTo(_, _, _)
SumsUpTo(pairs, s, top) ==
    IF s > top THEN <<>>
    ELSE SelectSeq(pairs, LAMBDA c : c[1] + c[2] = s) \o SumsUpTo(pairs, s + 1, top)

\* A sort that puts the weakest windows first.
SortAscending(pairs, top) == SumsUpTo(pairs, 0, top)

\* combinations.sort(key=sum, reverse=True): stable, largest sum first.
SortBySum(pairs, top) == SumsFrom(pairs, top)

\* A search that tries the full windows only.
OnlyFullWindows(start_len, end_len) == <<<<start_len, end_len>>>>

\* Every pair but (0, 0), whatever context the hunk has.
AllButZero(start_len, end_len) ==
    SelectSeq(SortBySum(AllPairs(start_len, end_len), start_len + end_len),
              LAMBDA x : x[1] # 0 \/ x[2] # 0)

\* Lines 195-204.
generate_combinations(start_len, end_len) ==
    LET combinations == SortBySum(AllPairs(start_len, end_len), start_len + end_len)
    IN IF start_len = 0 \/ end_len = 0
       THEN SelectSeq(combinations, LAMBDA x : x[1] # 0 \/ x[2] # 0)
       ELSE SelectSeq(combinations, LAMBDA x : x[1] # 0 /\ x[2] # 0)

NoMatch == <<-1, -1>>

\* An already-applied result that reports the length of the removed run.
AppliedAsRemoved(pos, hunk) == <<pos, Len(hunk.removed_lines)>>

\* Line 270: return idx + match_start_len, len(hunk.added_lines)
AppliedResult(pos, hunk) == <<pos, Len(hunk.added_lines)>>

\* A match result whose length takes in the after-context.
MatchedWithContext(pos, hunk) ==
    <<pos, Len(hunk.removed_lines) + Len(hunk.after_context)>>

\* Line 253: return idx + match_start_len, len(hunk.removed_lines)
MatchedResult(pos, hunk) == <<pos, Len(hunk.removed_lines)>>

\* A loop over idx that ends at the first offset where both windows match
\* around lines that are not the removed ones.
RECURSIVE ScanToFirstSighting(_, _, _, _, _, _)
ScanToFirstSighting(buf, hunk, match_start_len, match_end_len, idx, possible_match_found) ==
    LET nb  == Len(hunk.before_context)
        nr  == Len(hunk.removed_lines)
        na  == Len(hunk.added_lines)
        at  == idx + match_start_len
        windows(n) ==
            /\ Slice(buf, idx, at) = Slice(hunk.before_context, nb - match_start_len, nb)
            /\ Slice(buf, at + n, at + n + match_end_len)
                   = Slice(hunk.after_context, 0, match_end_len)
    IN
    IF idx >= Len(buf) - match_start_len - match_end_len - nr + 1
    THEN [returned |-> FALSE, result |-> NoMatch,
          possible_match_found |-> possible_match_found]
    ELSE IF windows(nr)
    THEN IF Slice(buf, at, at + nr) = hunk.removed_lines
         THEN [returned |-> TRUE, result |-> MatchedResult(at, hunk),
               possible_match_found |-> possible_match_found]
         ELSE [returned |-> FALSE, result |-> NoMatch, possible_match_found |-> TRUE]
    ELSE IF windows(na) /\ Slice(buf, at, at + na) = hunk.added_lines
    THEN [returned |-> TRUE, result |-> AppliedResult(at, hunk),
          possible_match_found |-> possible_match_found]
    ELSE ScanToFirstSighting(buf, hunk, match_start_len, match_end_len, idx + 1,
                             possible_match_found)

\* The loop over idx for one combo, from idx on.  The result is either the
\* returned pair or, when the loop runs out, possible_match_found.
RECURSIVE ScanFrom(_, _, _, _, _, _)
ScanFrom(buf, hunk, match_start_len, match_end_len, idx, possible_match_found) ==
    LET nb  == Len(hunk.before_context)
        nr  == Len(hunk.removed_lines)
        na  == Len(hunk.added_lines)
        possible_context_start == Slice(hunk.before_context, nb - match_start_len, nb)
        possible_context_end   == Slice(hunk.after_context, 0, match_end_len)
    IN
    IF idx >= Len(buf) - match_start_len - match_end_len - nr + 1
    THEN [returned |-> FALSE, result |-> NoMatch,
          possible_match_found |-> possible_match_found]
    ELSE
      LET file_context_start == Slice(buf, idx, idx + match_start_len)
          file_context_end ==
              Slice(buf, idx + match_start_len + nr,
                         idx + match_start_len + nr + match_end_len)
          file_context_applied ==
              Slice(buf, idx + match_start_len + na,
                         idx + match_start_len + na + match_end_len)
          file_removed_lines ==
              Slice(buf, idx + match_start_len, idx + match_start_len + nr)
          file_added_lines ==
              Slice(buf, idx + match_start_len, idx + match_start_len + na)
          next(found) ==
              ScanFrom(buf, hunk, match_start_len, match_end_len, idx + 1, found)
      IN
      IF file_context_start = possible_context_start
      THEN IF file_context_end = possible_context_end
           THEN IF file_removed_lines = hunk.removed_lines
                THEN [returned |-> TRUE,
                      result |-> MatchedResult(idx + match_start_len, hunk),
                      possible_match_found |-> possible_match_found]
                ELSE next(TRUE)
           ELSE IF file_context_applied = possible_context_end
                THEN IF file_added_lines = hunk.added_lines
                     THEN [returned |-> TRUE,
                           result |-> AppliedResult(idx + match_start_len, hunk),
                           possible_match_found |-> possible_match_found]
                     ELSE next(possible_match_found)
                ELSE next(possible_match_found)
      ELSE next(possible_match_found)

\* A search that goes on to the weaker combos after a sighting.
NeverStop(scan) == FALSE

\* Lines 272-275: a sighting at this combo ends the search.
StopOnSighting(scan) == scan.possible_match_found

\* The loop over the combos, from the k-th on.
RECURSIVE SearchFrom(_, _, _, _)
SearchFrom(buf, hunk, combos, k) ==
    IF k > Len(combos) THEN NoMatch
    ELSE LET scan == ScanFrom(buf, hunk, combos[k][1], combos[k][2], 0, FALSE)
         IN IF scan.returned THEN scan.result
            ELSE IF StopOnSighting(scan) THEN NoMatch
            ELSE SearchFrom(buf, hunk, combos, k + 1)

_search_context(buf, hunk) ==
    SearchFrom(buf, hunk,
               generate_combinations(Len(hunk.before_context),
                                     Len(hunk.after_context)), 1)

\* file_lines[start: start + len] = added_lines
Splice(buf, start, len, added) ==
    Slice(buf, 0, start) \o added \o Slice(buf, start + len, Len(buf))

\* ------------------------------------------------------------------------
\* Files, paths and diff entries
\* ------------------------------------------------------------------------
File(lines, nl) == [lines |-> lines, nl |-> nl]

\* f.writelines([f"{line}\n" for line in file_lines])
WrittenFile(lines) == File(lines, lines # <<>>)

Paths == {"f", "g", "d/h"}

\* os.path.dirname of a path below the working directory.
DirOf(p) == IF p = "d/h" THEN "d" ELSE "."

Exists(tree, p) == p \in DOMAIN tree

Put(tree, p, file) == [q \in (DOMAIN tree) \cup {p} |-> IF q = p THEN file ELSE tree[q]]

Remove(tree, p) == [q \in (DOMAIN tree) \ {p} |-> tree[q]]

Entry(kind, a_path, b_path, blob, diff) ==
    [kind |-> kind, a_path |-> a_path, b_path |-> b_path,
     blob |-> blob, diff |-> diff]

Modified(p, diff) == Entry("M", p, p, File(<<>>, FALSE), diff)

\* The entry apply() is working on.
CurrentDiff == diff_index[di + 1]

\* ------------------------------------------------------------------------
\* apply.py: _handle_modify, one action per step
\* ------------------------------------------------------------------------
InApply == pc = "apply" /\ di < Len(diff_index)

\* Lines 81-93: the file exists; parse the diff and read the file.
ModifyOpen ==
    /\ InApply
    /\ CurrentDiff.kind = "M"
    /\ Exists(fs, CurrentDiff.b_path)
    /\ diff_chunks' = _extract_diff_chunks(CurrentDiff.diff)
    /\ file_lines' = fs[CurrentDiff.b_path].lines
    /\ all_patches_applied' = TRUE
    /\ ci' = 0
    /\ pc' = "chunk"
    /\ UNCHANGED <<fs, dirs, repoVars, applyVars, dry_run, start_position, replace_len>>

\* Lines 84-86: the target file is missing.
ModifyMissing ==
    /\ InApply
    /\ CurrentDiff.kind = "M"
    /\ ~Exists(fs, CurrentDiff.b_path)
    /\ patch_applied' = FALSE
    /\ di' = di + 1
    /\ UNCHANGED <<fs, dirs, repoVars, diff_index, dry_run, modifyVars, pc>>

\* A search of the file as it is on disk.
FileOnDisk == fs[CurrentDiff.b_path].lines

\* Line 95: the buffer handed to the search is the one the earlier chunks
\* of the entry were spliced into.
SearchBuffer == file_lines

\* A search that uses up the before-context of the chunk it looks for.
ModifySearchConsuming ==
    /\ pc = "chunk"
    /\ ci < Len(diff_chunks)
    /\ LET r == _search_context(SearchBuffer, diff_chunks[ci + 1])
       IN /\ start_position' = r[1]
          /\ replace_len' = r[2]
    /\ diff_chunks' = [diff_chunks EXCEPT ![ci + 1].before_context = <<>>]
    /\ pc' = "searched"
    /\ UNCHANGED <<fs, dirs, repoVars, applyVars, dry_run, file_lines,
                   ci, all_patches_applied>>

\* Line 95: search the buffer, as mutated so far, for the next chunk.
ModifySearch ==
    /\ pc = "chunk"
    /\ ci < Len(diff_chunks)
    /\ LET r == _search_context(SearchBuffer, diff_chunks[ci + 1])
       IN /\ start_position' = r[1]
          /\ replace_len' = r[2]
    /\ pc' = "searched"
    /\ UNCHANGED <<fs, dirs, repoVars, applyVars, dry_run, file_lines,
                   diff_chunks, ci, all_patches_applied>>

\* Lines 96-99: the chunk was located.
ModifySplice ==
    /\ pc = "searched"
    /\ start_position # -1
    /\ file_lines' = IF dry_run THEN file_lines
                     ELSE Splice(file_lines, start_position, replace_len,
                                 diff_chunks[ci + 1].added_lines)
    /\ ci' = ci + 1
    /\ pc' = "chunk"
    /\ UNCHANGED <<fs, dirs, repoVars, applyVars, dry_run, diff_chunks,
                   all_patches_applied, start_position, replace_len>>

\* A chunk that was not located and is not counted against the entry.
ModifyMissForgiven ==
    /\ pc = "searched"
    /\ start_position = -1
    /\ ci' = ci + 1
    /\ pc' = "chunk"
    /\ UNCHANGED <<fs, dirs, repoVars, applyVars, dry_run, file_lines,
                   diff_chunks, all_patches_applied, start_position, replace_len>>

\* Lines 100-101: the chunk was not located.
ModifyMiss ==
    /\ pc = "searched"
    /\ start_position = -1
    /\ all_patches_applied' = FALSE
    /\ ci' = ci + 1
    /\ pc' = "chunk"
    /\ UNCHANGED <<fs, dirs, repoVars, applyVars, dry_run, file_lines,
                   diff_chunks, start_position, replace_len>>

\* An entry that counts as resolved whatever its chunks did.
AlwaysResolved(flag) == TRUE

\* Line 103: the entry is resolved when every chunk was located.
Resolved(flag) == flag

\* Lines 103-116: some chunk failed; the patch text is printed (or copied
\* to the clipboard when interactive), nothing is written.
ModifyFail ==
    /\ pc = "chunk"
    /\ ci = Len(diff_chunks)
    /\ ~Resolved(all_patches_applied)
    /\ patch_applied' = FALSE
    /\ di' = di + 1
    /\ pc' = "apply"
    /\ UNCHANGED <<fs, dirs, repoVars, diff_index, dry_run, modifyVars>>

\* Lines 118-121: every chunk was located; the buffer is written back.
ModifyWrite ==
    /\ pc = "chunk"
    /\ ci = Len(diff_chunks)
    /\ Resolved(all_patches_applied)
    /\ fs' = IF dry_run THEN fs
             ELSE Put(fs, CurrentDiff.b_path, WrittenFile(file_lines))
    /\ patch_applied' = TRUE
    /\ di' = di + 1
    /\ pc' = "apply"
    /\ UNCHANGED <<dirs, repoVars, diff_index, dry_run, modifyVars>>

\* Line 45: apply() returns the value of patch_applied.
ApplyReturn ==
    /\ pc = "apply"
    /\ di = Len(diff_index)
    /\ pc' = "returned"
    /\ UNCHANGED <<fs, dirs, repoVars, applyVars, dry_run, modifyVars>>

NextModify ==
    \/ ModifyOpen
    \/ ModifySearch
    \/ ModifySplice
    \/ ModifyMiss
    \/ ModifyFail
    \/ ModifyWrite
    \/ ApplyReturn

\* ------------------------------------------------------------------------
\* The hunk search on every small buffer and every small hunk: one Modified
\* entry whose diff holds the same @@ block twice.
\* ------------------------------------------------------------------------
Context(lines) == [k \in 1..Len(lines) |-> [tag |-> " ", text |-> lines[k]]]
Minus(lines)   == [k \in 1..Len(lines) |-> [tag |-> "-", text |-> lines[k]]]
Plus(lines)    == [k \in 1..Len(lines) |-> [tag |-> "+", text |-> lines[k]]]

\* The @@ block a unified diff writes for one edit.
BlockOf(before, removed, added, after) ==
    Context(before) \o Minus(removed) \o Plus(added) \o Context(after)

\* State of a fresh CustomApply on a clean checkout, about to run apply().
ApplyStart(tree, entries, dry) ==
    /\ fs = tree
    /\ dirs = {"."}
    /\ head_tree = tree
    /\ log = <<>>
    /\ commit_hash = 0
    /\ applied_commits = {}
    /\ diff_index = entries
    /\ di = 0
    /\ patch_applied = FALSE
    /\ dry_run = dry
    /\ file_lines = <<>>
    /\ diff_chunks = <<>>
    /\ ci = 0
    /\ all_patches_applied = TRUE
    /\ start_position = -1
    /\ replace_len = -1
    /\ pc = "apply"

InitHunk ==
    \E buf \in SeqsUpTo(Letters, MaxFileLen),
       before \in SeqsUpTo(Letters, MaxCtx), after \in SeqsUpTo(Letters, MaxCtx),
       removed \in SeqsUpTo(Letters, MaxEdit), added \in SeqsUpTo(Letters, MaxEdit) :
        LET block == BlockOf(before, removed, added, after)
        IN ApplyStart([p \in {"f"} |-> WrittenFile(buf)],
                      <<Modified("f", <<block, block>>)>>, FALSE)

SpecHunk == InitHunk /\ [][NextModify]_vars

\* ------------------------------------------------------------------------
\* One Modified entry as git writes it: the diff of one or two edits of a
\* source file of distinct lines, applied to a target that has drifted.
\* ------------------------------------------------------------------------
BaseLines == <<"L1", "L2", "L3", "L4", "L5", "L6", "L7", "L8">>
Base == SubSeq(BaseLines, 1, BaseLen)

\* buf with the n lines from 0-based offset `at` replaced by the lines w.
Replaced(buf, at, n, w) ==
    SubSeq(buf, 1, at) \o w \o SubSeq(buf, at + n + 1, Len(buf))

\* An edit replaces nrem lines from 0-based line `at` by the lines `added`.
Edits ==
    {e \in [at : 0..BaseLen, nrem : 0..1, added : {<<>>, <<"X">>}] :
        /\ e.at + e.nrem <= BaseLen
        /\ e.nrem + Len(e.added) > 0}

EditEnd(e) == e.at + e.nrem

\* commit.parents[0].diff(commit, create_patch=True, unified=u) for one edit.
OneEditBlock(e, u) ==
    BlockOf(Slice(Base, Max(0, e.at - u), e.at),
            Slice(Base, e.at, EditEnd(e)),
            e.added,
            Slice(Base, EditEnd(e), EditEnd(e) + u))

\* The same for two edits: git writes one @@ block when no more than 2u
\* unchanged lines separate them, and two blocks otherwise.
TwoEditDiff(e1, e2, u) ==
    IF e2.at - EditEnd(e1) <= 2 * u
    THEN << Context(Slice(Base, Max(0, e1.at - u), e1.at))
            \o Minus(Slice(Base, e1.at, EditEnd(e1))) \o Plus(e1.added)
            \o Context(Slice(Base, EditEnd(e1), e2.at))
            \o Minus(Slice(Base, e2.at, EditEnd(e2))) \o Plus(e2.added)
            \o Context(Slice(Base, EditEnd(e2), EditEnd(e2) + u)) >>
    ELSE << OneEditBlock(e1, u), OneEditBlock(e2, u) >>

EditDiffs ==
    {<<OneEditBlock(e, u)>> : e \in Edits, u \in 1..Unified}
    \cup {TwoEditDiff(ee[1], ee[2], u) :
            ee \in {x \in Edits \X Edits : EditEnd(x[1]) < x[2].at},
            u \in 1..Unified}

\* The target's copy of the file: the source file, or the source file with
\* one line inserted, deleted or replaced.
Drifted ==
    {Base}
    \cup {Replaced(Base, k, 0, <<t>>) : k \in 0..BaseLen, t \in {"X", "Z"}}
    \cup {Replaced(Base, k, 1, <<>>) : k \in 0..(BaseLen - 1)}
    \cup {Replaced(Base, k, 1, <<t>>) : k \in 0..(BaseLen - 1), t \in {"X", "Z"}}

InitModify ==
    \E diff \in EditDiffs, target \in Drifted, nl \in BOOLEAN, dry \in BOOLEAN :
        ApplyStart([p \in {"f"} |-> File(target, nl)],
                   <<Modified("f", diff)>>, dry)

SpecModify == InitModify /\ [][NextModify]_vars

\* ------------------------------------------------------------------------
\* The parser on every small @@ block, applied to the block's pre-image
\* ------------------------------------------------------------------------
Tags == {" ", "+", "-", "\\"}

\* The texts of a block of n lines: n distinct lines, or any lines over
\* two letters.
BlockTexts(n) == {SubSeq(BaseLines, 1, n)} \cup [1..n -> Letters]

MakeBlock(tags, texts) ==
    [k \in 1..Len(tags) |-> [tag |-> tags[k], text |-> texts[k]]]

TextsOf(block, tags) ==
    LET kept == SelectSeq(block, LAMBDA l : l.tag \in tags)
    IN [k \in 1..Len(kept) |-> kept[k].text]

\* The file the block was cut from and the file it leads to.
PreImage(block)  == TextsOf(block, {" ", "-"})
PostImage(block) == TextsOf(block, {" ", "+"})

InitParse ==
    \E n \in 0..MaxBlockLen :
      \E tags \in [1..n -> Tags], texts \in BlockTexts(n) :
        LET block == MakeBlock(tags, texts)
        IN ApplyStart([p \in {"f"} |-> WrittenFile(PreImage(block))],
                      <<Modified("f", <<block>>)>>, FALSE)

SpecParse == InitParse /\ [][NextModify]_vars

\* ------------------------------------------------------------------------
\* apply.py: the handlers of deleted, added and renamed files
\* ------------------------------------------------------------------------
\* Lines 47-54.
HandleDelete ==
    /\ InApply
    /\ CurrentDiff.kind = "D"
    /\ IF Exists(fs, CurrentDiff.a_path)
       THEN /\ fs' = IF dry_run THEN fs ELSE Remove(fs, CurrentDiff.a_path)
            /\ patch_applied' = TRUE
       ELSE /\ fs' = fs
            /\ patch_applied' = FALSE
    /\ di' = di + 1
    /\ UNCHANGED <<dirs, repoVars, diff_index, dry_run, modifyVars, pc>>

\* A blob whose bytes are not UTF-8; the one line stands for them.
BinaryFile == File(<<"0xFF">>, FALSE)

\* Line 65: .decode('utf-8') returns the text of a blob that is UTF-8 and
\* raises UnicodeDecodeError for any other.
Decodes(blob) == blob # BinaryFile

\* Lines 64-65: the file is opened for writing, and so created, before the
\* blob is decoded.
CreateRaises ==
    /\ ~Exists(fs, CurrentDiff.b_path)
    /\ ~dry_run
    /\ ~Decodes(CurrentDiff.blob)

\* Lines 56-68: the directory is made before anything is tested.
HandleCreate ==
    /\ InApply
    /\ CurrentDiff.kind = "A"
    /\ ~CreateRaises
    /\ dirs' = dirs \cup {DirOf(CurrentDiff.b_path)}
    /\ IF ~Exists(fs, CurrentDiff.b_path)
       THEN /\ fs' = IF dry_run THEN fs
                     ELSE Put(fs, CurrentDiff.b_path, CurrentDiff.blob)
            /\ patch_applied' = TRUE
       ELSE /\ fs' = fs
            /\ patch_applied' = FALSE
    /\ di' = di + 1
    /\ UNCHANGED <<repoVars, diff_index, dry_run, modifyVars, pc>>

\* Line 65 raising: the file is left empty; nothing catches the error, in
\* apply.py or in sync.py.
HandleCreateRaises ==
    /\ InApply
    /\ CurrentDiff.kind = "A"
    /\ CreateRaises
    /\ dirs' = dirs \cup {DirOf(CurrentDiff.b_path)}
    /\ fs' = Put(fs, CurrentDiff.b_path, File(<<>>, FALSE))
    /\ pc' = "crashed"
    /\ UNCHANGED <<repoVars, applyVars, dry_run, modifyVars>>

\* os.rename raises when the directory of the new path does not exist.
RenameRaises ==
    /\ Exists(fs, CurrentDiff.a_path)
    /\ ~dry_run
    /\ DirOf(CurrentDiff.b_path) \notin dirs

\* Lines 70-79.
HandleRename ==
    /\ InApply
    /\ CurrentDiff.kind = "R"
    /\ ~RenameRaises
    /\ IF Exists(fs, CurrentDiff.a_path)
       THEN /\ fs' = IF dry_run THEN fs
                     ELSE Put(Remove(fs, CurrentDiff.a_path), CurrentDiff.b_path,
                              fs[CurrentDiff.a_path])
            /\ patch_applied' = TRUE
       ELSE /\ fs' = fs
            /\ patch_applied' = FALSE
    /\ di' = di + 1
    /\ UNCHANGED <<dirs, repoVars, diff_index, dry_run, modifyVars, pc>>

\* Line 76 raising: nothing catches the error, in apply.py or in sync.py.
HandleRenameRaises ==
    /\ InApply
    /\ CurrentDiff.kind = "R"
    /\ RenameRaises
    /\ pc' = "crashed"
    /\ UNCHANGED <<fs, dirs, repoVars, applyVars, dry_run, modifyVars>>

NextApply ==
    \/ HandleDelete
    \/ HandleCreate
    \/ HandleCreateRaises
    \/ HandleRename
    \/ HandleRenameRaises
    \/ ModifyMissing
    \/ NextModify

\* ------------------------------------------------------------------------
\* sync.py: the replay loop
\* ------------------------------------------------------------------------
\* The source commits to replay are named 1..MaxCommits by age, 1 the
\* oldest.  A commit of the sync branch is [orig, message, tree, parent]:
\* the source commit it replays, its message, its tree and the tree of its
\* parent.
AtLoopTop == pc \in {"loop", "committed", "failed"}

\* The diffs a source commit may carry.
NewFile == File(<<"N1">>, TRUE)

EntryPool ==
    { Modified("f", <<OneEditBlock([at |-> 1, nrem |-> 1, added |-> <<"X">>], Unified)>>),
      Modified("f", <<OneEditBlock([at |-> 3, nrem |-> 1, added |-> <<>>], Unified)>>),
      Modified("g", <<BlockOf(<<>>, <<>>, <<"X">>, <<"N1">>)>>),
      Entry("A", "g", "g", NewFile, <<>>),
      Entry("A", "d/h", "d/h", NewFile, <<>>),
      Entry("A", "g", "g", BinaryFile, <<>>),
      Entry("D", "g", "g", File(<<>>, FALSE), <<>>),
      Entry("R", "g", "d/h", File(<<>>, FALSE), <<>>) }

CommitDiffs == UNION {[1..n -> EntryPool] : n \in 1..MaxEntries}

\* A commit message is a sequence of tokens: words, line ends, the marker
\* and hashes.  A source commit is named by its age, 1 the oldest, and its
\* hash is the text of that number.
MARKER == "Original commit: "
NL == "\n"
HashText(h) == ToString(h)
SourceCommits == 1..MaxCommits

\* The messages a source commit may carry: plain, or quoting the marker
\* of the commit after it (the oldest one for the newest).
SourceMessages(h) ==
    { <<"fix", NL>>,
      <<"fix", NL, MARKER, HashText((h % MaxCommits) + 1), NL>> }

\* str.strip(): the line ends at both ends are dropped.
RECURSIVE LStrip(_)
LStrip(msg) ==
    IF msg # <<>> /\ Head(msg) = NL THEN LStrip(Tail(msg)) ELSE msg

RECURSIVE RStrip(_)
RStrip(msg) ==
    IF msg # <<>> /\ msg[Len(msg)] = NL
    THEN RStrip(SubSeq(msg, 1, Len(msg) - 1)) ELSE msg

Strip(msg) == LStrip(RStrip(msg))

\* Lines 95-96: the message of the replayed commit.
UpdatedMessage(message, h) ==
    Strip(message) \o <<NL, NL, MARKER, HashText(h)>>

HasMarker(message) == \E k \in 1..Len(message) : message[k] = MARKER

\* A reading of the marker that takes what follows its first occurrence.
AfterFirstMarker(message) ==
    LET first == CHOOSE k \in 1..Len(message) :
                    /\ message[k] = MARKER
                    /\ \A m \in 1..(k - 1) : message[m] # MARKER
    IN Strip(SubSeq(message, first + 1, Len(message)))

\* Line 77: message.split("Original commit: ")[-1].strip().
AfterLastMarker(message) ==
    LET last == CHOOSE k \in 1..Len(message) :
                   /\ message[k] = MARKER
                   /\ \A m \in (k + 1)..Len(message) : message[m] # MARKER
    IN Strip(SubSeq(message, last + 1, Len(message)))

\* Lines 60-61: git log lists the commits of the range newest first.
commits_to_apply == [k \in 1..MaxCommits |-> MaxCommits + 1 - k]

Reversed(seq) == [k \in 1..Len(seq) |-> seq[Len(seq) + 1 - k]]

\* Line 82: the order in which the loop takes the commits.
ReplayOrder == Reversed(commits_to_apply)

\* How many commits the loop has taken so far.
Taken ==
    IF commit_hash = 0 THEN 0
    ELSE CHOOSE k \in 1..Len(ReplayOrder) : ReplayOrder[k] = commit_hash

HasNextCommit == Taken < Len(ReplayOrder)
NextCommit == ReplayOrder[Taken + 1]

\* Lines 63-79: the sync branch is made or found and the markers are read.
ReplayStart ==
    /\ pc = "start"
    /\ applied_commits' = {AfterLastMarker(log[k].message) :
                              k \in {m \in 1..Len(log) : HasMarker(log[m].message)}}
    /\ pc' = "loop"
    /\ UNCHANGED <<fs, dirs, head_tree, log, commit_hash, applyVars, dry_run,
                   modifyVars>>

\* Lines 82-85: the next commit carries a marker already.
ReplaySkip ==
    /\ AtLoopTop
    /\ HasNextCommit
    /\ <<HashText(NextCommit)>> \in applied_commits
    /\ commit_hash' = NextCommit
    /\ pc' = "loop"
    /\ UNCHANGED <<fs, dirs, head_tree, log, applied_commits, applyVars,
                   dry_run, modifyVars>>

\* Lines 82-93: the next commit's diff is taken and handed to apply().
ReplayFetch ==
    /\ AtLoopTop
    /\ HasNextCommit
    /\ <<HashText(NextCommit)>> \notin applied_commits
    /\ commit_hash' = NextCommit
    /\ \E diff \in CommitDiffs : diff_index' = diff
    /\ di' = 0
    /\ patch_applied' = FALSE
    /\ pc' = "apply"
    /\ UNCHANGED <<fs, dirs, head_tree, log, applied_commits, dry_run, modifyVars>>

\* Lines 93-98: apply() said yes; git add . and git commit record the
\* whole working tree.
ReplayCommit ==
    /\ pc = "returned"
    /\ patch_applied
    /\ fs # head_tree
    /\ \E message \in SourceMessages(commit_hash) :
          log' = Append(log, [orig |-> commit_hash,
                              message |-> UpdatedMessage(message, commit_hash),
                              tree |-> fs, parent |-> head_tree])
    /\ head_tree' = fs
    /\ pc' = "committed"
    /\ UNCHANGED <<fs, dirs, commit_hash, applied_commits, applyVars, dry_run,
                   modifyVars>>

\* Line 98 with nothing to commit: git exits with an error, GitCommandError
\* is raised and nothing catches it.
ReplayNothingToCommit ==
    /\ pc = "returned"
    /\ patch_applied
    /\ fs = head_tree
    /\ pc' = "crashed"
    /\ UNCHANGED <<fs, dirs, repoVars, applyVars, dry_run, modifyVars>>

\* Lines 99-100: apply() said no; the error is logged.
ReplayFail ==
    /\ pc = "returned"
    /\ ~patch_applied
    /\ pc' = "failed"
    /\ UNCHANGED <<fs, dirs, repoVars, applyVars, dry_run, modifyVars>>

\* The loop has run out of commits.
ReplayDone ==
    /\ AtLoopTop
    /\ ~HasNextCommit
    /\ pc' = "done"
    /\ UNCHANGED <<fs, dirs, repoVars, applyVars, dry_run, modifyVars>>

\* The source commits earlier runs may have recorded on the sync branch:
\* none, some or all of them, each once, in any order.
EarlierReplays ==
    {order \in UNION {[1..n -> SourceCommits] : n \in 0..MaxCommits} :
        \A j, k \in 1..Len(order) : order[j] = order[k] => j = k}

\* A clean checkout of the target; the sync branch is new, or it holds
\* what earlier runs recorded.
TargetTrees ==
    {[p \in {"f"} |-> File(lines, TRUE)] : lines \in {Base, Replaced(Base, 1, 1, <<"Z">>)}}
    \cup {[p \in {"f", "g"} |-> IF p = "f" THEN File(Base, TRUE) ELSE NewFile]}

\* apply() over one diff, with dry_run set or not, on a clean checkout in
\* which no directory but the root exists.
InitApply ==
    \E tree \in TargetTrees, entries \in CommitDiffs, dry \in BOOLEAN :
        ApplyStart(tree, entries, dry)

SpecApply == InitApply /\ [][NextApply]_vars

Init ==
    \E tree \in TargetTrees, d \in {{"."}, {".", "d"}}, earlier \in EarlierReplays :
      \E message \in [1..Len(earlier) -> UNION {SourceMessages(h) : h \in SourceCommits}] :
        /\ \A k \in 1..Len(earlier) : message[k] \in SourceMessages(earlier[k])
        /\ fs = tree
        /\ dirs = d
        /\ head_tree = tree
        /\ log = [k \in 1..Len(earlier) |->
                     [orig |-> earlier[k],
                      message |-> UpdatedMessage(message[k], earlier[k]),
                      tree |-> tree, parent |-> tree]]
        /\ commit_hash = 0
        /\ applied_commits = {}
        /\ diff_index = <<>>
        /\ di = 0
        /\ patch_applied = FALSE
        /\ dry_run = FALSE
        /\ file_lines = <<>>
        /\ diff_chunks = <<>>
        /\ ci = 0
        /\ all_patches_applied = TRUE
        /\ start_position = -1
        /\ replace_len = -1
        /\ pc = "start"

Next ==
    \/ ReplayStart
    \/ ReplaySkip
    \/ ReplayFetch
    \/ ReplayCommit
    \/ ReplayNothingToCommit
    \/ ReplayFail
    \/ ReplayDone
    \/ NextApply

Spec == Init /\ [][Next]_vars

\* ------------------------------------------------------------------------
\* What a site of the buffer is, stated without the search
\* ------------------------------------------------------------------------
\* The window w lies in buf at 0-based offset at.
Win(buf, at, w) ==
    /\ at >= 0
    /\ at + Len(w) <= Len(buf)
    /\ \A k \in 1..Len(w) : buf[at + k] = w[k]

Lb(hunk) == Len(hunk.before_context)
La(hunk) == Len(hunk.after_context)

BeforeWindow(hunk, i) == SubSeq(hunk.before_context, Lb(hunk) - i + 1, Lb(hunk))
AfterWindow(hunk, j)  == SubSeq(hunk.after_context, 1, j)

\* The i-line before-window, the removed lines and the j-line after-window
\* lie contiguously in buf from offset idx.
CleanAt(buf, hunk, i, j, idx) ==
    /\ Win(buf, idx, BeforeWindow(hunk, i))
    /\ Win(buf, idx + i, hunk.removed_lines)
    /\ Win(buf, idx + i + Len(hunk.removed_lines), AfterWindow(hunk, j))

\* The same with the added lines in place of the removed ones.
AppliedAt(buf, hunk, i, j, idx) ==
    /\ Win(buf, idx, BeforeWindow(hunk, i))
    /\ Win(buf, idx + i, hunk.added_lines)
    /\ Win(buf, idx + i + Len(hunk.added_lines), AfterWindow(hunk, j))

\* Both windows lie around a gap as long as the removed lines, and the gap
\* does not hold the removed lines.
SightingAt(buf, hunk, i, j, idx) ==
    /\ Win(buf, idx, BeforeWindow(hunk, i))
    /\ Win(buf, idx + i + Len(hunk.removed_lines), AfterWindow(hunk, j))
    /\ ~Win(buf, idx + i, hunk.removed_lines)

Offsets(buf) == 0..Len(buf)

Strength(combo) == combo[1] + combo[2]

\* The state between the search for a chunk and the use of its result.
Searched == pc = "searched"
Chunk    == diff_chunks[ci + 1]
Combos   == generate_combinations(Lb(Chunk), La(Chunk))
Result   == <<start_position, replace_len>>

\* C2: no weakening past conflict.  If some combo has a conflict sighting
\* and no combo at least as strong has a site that matches cleanly or as
\* already applied, the search fails; it never returns a site found with a
\* weaker window.
C2_NoWeakeningPastConflict ==
    Searched =>
      \A k \in 1..Len(Combos) :
        ( /\ \E idx \in Offsets(file_lines) :
                 SightingAt(file_lines, Chunk, Combos[k][1], Combos[k][2], idx)
          /\ \A m \in 1..Len(Combos) :
                 Strength(Combos[m]) >= Strength(Combos[k]) =>
                   \A idx \in Offsets(file_lines) :
                     /\ ~CleanAt(file_lines, Chunk, Combos[m][1], Combos[m][2], idx)
                     /\ ~AppliedAt(file_lines, Chunk, Combos[m][1], Combos[m][2], idx) )
        => Result = NoMatch

\* A conflict at the strongest combo that has a window match, a clean match
\* with a weaker window elsewhere, and the search has failed.
C2_Witness ==
    /\ Searched
    /\ Result = NoMatch
    /\ \E k \in 1..Len(Combos) :
        /\ \E idx \in Offsets(file_lines) :
               SightingAt(file_lines, Chunk, Combos[k][1], Combos[k][2], idx)
        /\ \A m \in 1..Len(Combos) :
               Strength(Combos[m]) >= Strength(Combos[k]) =>
                 \A idx \in Offsets(file_lines) :
                   /\ ~CleanAt(file_lines, Chunk, Combos[m][1], Combos[m][2], idx)
                   /\ ~AppliedAt(file_lines, Chunk, Combos[m][1], Combos[m][2], idx)
        /\ \E m \in 1..Len(Combos), idx \in Offsets(file_lines) :
               /\ Strength(Combos[m]) < Strength(Combos[k])
               /\ CleanAt(file_lines, Chunk, Combos[m][1], Combos[m][2], idx)

\* Some combo the search tries has a clean match in buf.
CleanSomewhere(buf, hunk) ==
    LET combos == generate_combinations(Lb(hunk), La(hunk))
    IN \E k \in 1..Len(combos), idx \in Offsets(buf) :
           CleanAt(buf, hunk, combos[k][1], combos[k][2], idx)

\* C3: idempotence of hunk application.  When the chunk just located is the
\* chunk that was located and spliced in the step before, the splice about
\* to happen leaves the buffer as it is.
C3_Idempotence ==
    ( /\ Searched
      /\ ci = 1
      /\ all_patches_applied
      /\ ~dry_run
      /\ diff_chunks[2] = diff_chunks[1]
      /\ start_position # -1 )
    => Splice(file_lines, start_position, replace_len, Chunk.added_lines) = file_lines

\* C3 as amended: the second application leaves the buffer as it is unless
\* the buffer left by the first one still holds the removed lines between
\* the windows of some combo the search tries.
C3_IdempotenceUnlessCleanAgain ==
    ( /\ Searched
      /\ ci = 1
      /\ all_patches_applied
      /\ ~dry_run
      /\ diff_chunks[2] = diff_chunks[1]
      /\ ~CleanSomewhere(file_lines, Chunk)
      /\ start_position # -1 )
    => /\ Splice(file_lines, start_position, replace_len, Chunk.added_lines)
            = file_lines
       /\ replace_len = Len(Chunk.added_lines)

\* The first application changed the buffer, the second search found the
\* hunk already applied, and the lengths of the two runs differ.
C3_Witness ==
    /\ Searched
    /\ ci = 1
    /\ all_patches_applied
    /\ ~dry_run
    /\ diff_chunks[2] = diff_chunks[1]
    /\ ~CleanSomewhere(file_lines, Chunk)
    /\ start_position # -1
    /\ file_lines # fs["f"].lines
    /\ Len(Chunk.added_lines) # Len(Chunk.removed_lines)

\* C4: already-applied detection.  When the first offset at which the full
\* windows surround the removed or the added lines holds the added lines and
\* not the removed ones, the search returns that site with len(added), and
\* splicing there leaves the buffer as it is.
C4_AlreadyApplied ==
    ( Searched /\ Lb(Chunk) + La(Chunk) > 0 ) =>
      \A idx \in Offsets(file_lines) :
        ( /\ AppliedAt(file_lines, Chunk, Lb(Chunk), La(Chunk), idx)
          /\ ~CleanAt(file_lines, Chunk, Lb(Chunk), La(Chunk), idx)
          /\ \A e \in 0..(idx - 1) :
                 /\ ~AppliedAt(file_lines, Chunk, Lb(Chunk), La(Chunk), e)
                 /\ ~CleanAt(file_lines, Chunk, Lb(Chunk), La(Chunk), e) )
        => /\ Result = <<idx + Lb(Chunk), Len(Chunk.added_lines)>>
           /\ Splice(file_lines, start_position, replace_len, Chunk.added_lines)
                = file_lines

\* C5: context-greediness.  When the full windows surround the removed lines
\* somewhere, the search returns a site found with the full windows: the
\* first offset where they surround the removed or the added lines, whatever
\* weaker-window sites lie before it.
C5_ContextGreediness ==
    ( Searched /\ Lb(Chunk) + La(Chunk) > 0 ) =>
      \A idx \in Offsets(file_lines) :
        ( /\ CleanAt(file_lines, Chunk, Lb(Chunk), La(Chunk), idx)
          /\ \A e \in 0..(idx - 1) :
                 ~CleanAt(file_lines, Chunk, Lb(Chunk), La(Chunk), e) )
        => /\ start_position # -1
           /\ start_position - Lb(Chunk) <= idx
           /\ \/ /\ replace_len = Len(Chunk.removed_lines)
                 /\ CleanAt(file_lines, Chunk, Lb(Chunk), La(Chunk),
                            start_position - Lb(Chunk))
              \/ /\ replace_len = Len(Chunk.added_lines)
                 /\ AppliedAt(file_lines, Chunk, Lb(Chunk), La(Chunk),
                              start_position - Lb(Chunk))
           /\ (\A e \in 0..(idx - 1) :
                   ~AppliedAt(file_lines, Chunk, Lb(Chunk), La(Chunk), e))
              => Result = <<idx + Lb(Chunk), Len(Chunk.removed_lines)>>

\* A full-window match, a site before it that matches only with a weaker
\* window, and the search has returned the full-window site.
C5_Witness ==
    /\ Searched
    /\ Chunk.removed_lines # Chunk.added_lines
    /\ \E idx \in Offsets(file_lines) :
        /\ CleanAt(file_lines, Chunk, Lb(Chunk), La(Chunk), idx)
        /\ Result = <<idx + Lb(Chunk), Len(Chunk.removed_lines)>>
        /\ \E m \in 1..Len(Combos), e \in Offsets(file_lines) :
            /\ Strength(Combos[m]) < Lb(Chunk) + La(Chunk)
            /\ e + Combos[m][1] < idx + Lb(Chunk)
            /\ CleanAt(file_lines, Chunk, Combos[m][1], Combos[m][2], e)
            /\ ~CleanAt(file_lines, Chunk, Lb(Chunk), La(Chunk),
                        e + Combos[m][1] - Lb(Chunk))

\* ------------------------------------------------------------------------
\* _handle_modify on one entry of a clean checkout
\* ------------------------------------------------------------------------
\* The first entry's handler has returned.
FirstEntryDone == di >= 1 /\ pc \in {"apply", "returned"}

\* C1: atomicity of a Modified entry.  Once a chunk of an entry with two or
\* more chunks has failed, the file on disk stays what it was before the
\* entry, lines and final newline, and the entry is reported unresolved.
C1_Atomicity ==
    ( /\ Len(diff_index) = 1
      /\ Len(diff_chunks) >= 2
      /\ ~all_patches_applied )
    => /\ fs = head_tree
       /\ FirstEntryDone => ~patch_applied

\* The handler has returned for an entry one of whose chunks failed after
\* another was spliced into the buffer.
C1_Witness ==
    /\ Len(diff_index) = 1
    /\ Len(diff_chunks) >= 2
    /\ ~all_patches_applied
    /\ ~dry_run
    /\ FirstEntryDone
    /\ file_lines # fs["f"].lines
    /\ fs = head_tree

\* The one offset at which the full windows surround the removed lines.
CleanSites(buf, hunk) ==
    {idx \in Offsets(buf) : CleanAt(buf, hunk, Lb(hunk), La(hunk), idx)}

TheSite(buf, hunk) == (CHOOSE idx \in CleanSites(buf, hunk) : TRUE) + Lb(hunk)

Occurrences(buf, w) == {at \in Offsets(buf) : Win(buf, at, w)}

\* The hunk has context, each of its windows lies at one place of buf, and
\* the removed lines lie between them.
UniqueContext(buf, hunk) ==
    /\ Lb(hunk) + La(hunk) > 0
    /\ Lb(hunk) > 0 => Cardinality(Occurrences(buf, hunk.before_context)) = 1
    /\ La(hunk) > 0 => Cardinality(Occurrences(buf, hunk.after_context)) = 1
    /\ Cardinality(CleanSites(buf, hunk)) = 1

\* Two chunks with unique contexts in the file as read, the second edit
\* site lying after the first with unchanged lines between them.
TwoSeparateHunks(orig) ==
    /\ Len(diff_chunks) = 2
    /\ UniqueContext(orig, diff_chunks[1])
    /\ UniqueContext(orig, diff_chunks[2])
    /\ TheSite(orig, diff_chunks[1]) + Len(diff_chunks[1].removed_lines)
         < TheSite(orig, diff_chunks[2])

\* What the first hunk leaves of the file as read: the file with the first
\* edit made at its site, or the file itself when it already holds the
\* added lines between the first hunk's windows.
AfterFirst(orig) ==
    LET h1 == diff_chunks[1]
    IN {Replaced(orig, TheSite(orig, h1), Len(h1.removed_lines), h1.added_lines)}
       \cup {orig : idx \in {e \in Offsets(orig) :
                                AppliedAt(orig, h1, Lb(h1), La(h1), e)}}

\* The second edit made in mid at its site in orig, shifted by the number
\* of lines mid has more than orig.
SecondEdit(orig, mid) ==
    LET h2 == diff_chunks[2]
    IN Replaced(mid, TheSite(orig, h2) + Len(mid) - Len(orig),
              Len(h2.removed_lines), h2.added_lines)

\* C9: hunks are applied in diff order against the mutated buffer.  For two
\* separate hunks with unique contexts the buffer searched for the second is
\* what the first left, the second is located at its site in the file as
\* read shifted by the change d the first made to the number of lines, and
\* the file written holds both edits.
C9_OrderAndShift ==
    /\ ( /\ Searched
         /\ ci = 1
         /\ ~dry_run
         /\ TwoSeparateHunks(fs["f"].lines) )
       => LET orig == fs["f"].lines
              d == Len(file_lines) - Len(orig)
          IN /\ file_lines \in AfterFirst(orig)
             /\ Result = <<TheSite(orig, diff_chunks[2]) + d,
                           Len(diff_chunks[2].removed_lines)>>
    /\ ( /\ Len(diff_index) = 1
         /\ FirstEntryDone
         /\ ~dry_run
         /\ TwoSeparateHunks(head_tree["f"].lines) )
       => LET orig == head_tree["f"].lines
          IN /\ patch_applied
             /\ \E mid \in AfterFirst(orig) :
                    /\ fs["f"] = WrittenFile(SecondEdit(orig, mid))
                    /\ \E at \in Offsets(mid) :
                           /\ Win(mid, at, diff_chunks[1].added_lines)
                           /\ Win(fs["f"].lines, at, diff_chunks[1].added_lines)

\* The second of two separate hunks has been located after a first hunk
\* that changed the number of lines, in a target that is not the source.
C9_Witness ==
    /\ Searched
    /\ ci = 1
    /\ ~dry_run
    /\ TwoSeparateHunks(fs["f"].lines)
    /\ fs["f"].lines # Base
    /\ Len(file_lines) # Len(fs["f"].lines)
    /\ start_position = TheSite(fs["f"].lines, diff_chunks[2])
                          + Len(file_lines) - Len(fs["f"].lines)

\* C10: clean application leaves everything else unchanged.  A hunk whose
\* full context and removed lines lie at exactly one place of the buffer is
\* matched at the first removed line, and the file written for a resolved
\* entry is the buffer the splices left.  Stated for the buffers that do
\* not hold the added lines between the full windows, where the site of the
\* edit is not in doubt.
C10_CleanApplication ==
    /\ ( /\ Searched
         /\ Chunk.removed_lines # Chunk.added_lines
         /\ Cardinality(CleanSites(file_lines, Chunk)) = 1
         /\ \A idx \in Offsets(file_lines) :
                ~AppliedAt(file_lines, Chunk, Lb(Chunk), La(Chunk), idx) )
       => Result = <<TheSite(file_lines, Chunk), Len(Chunk.removed_lines)>>
    /\ ( /\ Len(diff_index) = 1
         /\ FirstEntryDone
         /\ ~dry_run
         /\ patch_applied )
       => fs["f"].lines = file_lines

\* ------------------------------------------------------------------------
\* _extract_diff_chunks
\* ------------------------------------------------------------------------
TheBlock == SelectSeq(diff_index[1].diff[1], LAMBDA l : l.tag # "\\")

IsContextRun(block, from, to) == \A k \in from..to : block[k].tag = " "
IsEditRun(block, from, to) ==
    /\ from <= to
    /\ \A k \in from..to : block[k].tag \in {"+", "-"}

Part(block, from, to, tags) == TextsOf(SubSeq(block, from, to), tags)

\* The block is context, an edit run up to line r1, context up to line c1,
\* a second edit run up to line r2, context: c0 < r1 < c1 < r2.
TwoRuns(block, c0, r1, c1, r2) ==
    /\ IsContextRun(block, 1, c0)
    /\ IsEditRun(block, c0 + 1, r1)
    /\ c1 > r1
    /\ IsContextRun(block, r1 + 1, c1)
    /\ IsEditRun(block, c1 + 1, r2)
    /\ IsContextRun(block, r2 + 1, Len(block))

Cuts(block) ==
    {c \in (0..Len(block)) \X (0..Len(block)) \X (0..Len(block)) \X (0..Len(block)) :
        TwoRuns(block, c[1], c[2], c[3], c[4])}

\* The two hunks the block stands for.
TwoHunks(block, c) ==
    << DiffHunk(Part(block, 1, c[1], {" "}), Part(block, c[2] + 1, c[3], {" "}),
                Part(block, c[1] + 1, c[2], {"-"}), Part(block, c[1] + 1, c[2], {"+"})),
       DiffHunk(Part(block, c[2] + 1, c[3], {" "}), Part(block, c[4] + 1, Len(block), {" "}),
                Part(block, c[3] + 1, c[4], {"-"}), Part(block, c[3] + 1, c[4], {"+"})) >>

NoRepeat(lines) == \A k, m \in 1..Len(lines) : lines[k] = lines[m] => k = m

InsideApply == pc \in {"apply", "chunk", "searched"}

\* The entry apply() handled last was left unresolved.
EntryUnresolved == InsideApply /\ di >= 1 /\ ~patch_applied

\* C6: commit-level success.  Once an entry of the diff was left
\* unresolved, apply() does not report success for that diff, and when
\* apply() reports failure the replay loop records no commit.
C6_CommitLevelSuccess ==
    [][ /\ (EntryUnresolved /\ (InsideApply \/ pc = "returned")')
           => ~patch_applied'
        /\ (pc = "returned" /\ ~patch_applied) => log' = log ]_vars

ChangedPaths(old, new) ==
    {p \in DOMAIN old \cup DOMAIN new :
        \/ p \notin DOMAIN old
        \/ p \notin DOMAIN new
        \/ old[p] # new[p]}

PathsOf(entries) ==
    {entries[k].a_path : k \in 1..Len(entries)}
    \cup {entries[k].b_path : k \in 1..Len(entries)}

\* C7: failure isolation.  A source commit whose apply() failed has no
\* commit on the sync branch, and the commit just recorded for a source
\* commit differs from its parent only in files the source commit's own
\* diff names: it carries no change a failed commit left in the working
\* tree.
C7_FailureIsolation ==
    /\ pc = "failed" => \A k \in 1..Len(log) : log[k].orig # commit_hash
    /\ pc = "committed" =>
          /\ log[Len(log)].orig = commit_hash
          /\ ChangedPaths(log[Len(log)].parent, log[Len(log)].tree)
                \subseteq PathsOf(diff_index)

\* ------------------------------------------------------------------------
\* _search_context: the weaker windows
\* ------------------------------------------------------------------------
\* The window lengths (i, j) a hunk allows, (0, 0) left out.
Pairs(hunk) == ((0..Lb(hunk)) \X (0..La(hunk))) \ {<<0, 0>>}

\* A pair that takes lines from every side on which the hunk has context.
TwoSided(hunk, c) ==
    /\ c \in Pairs(hunk)
    /\ Lb(hunk) > 0 => c[1] > 0
    /\ La(hunk) > 0 => c[2] > 0

\* The windows of c lie in buf around a gap as long as the removed or the
\* added lines, whatever the gap holds.
WindowMatch(buf, hunk, c) ==
    \E idx \in Offsets(buf) :
        \/ CleanAt(buf, hunk, c[1], c[2], idx)
        \/ SightingAt(buf, hunk, c[1], c[2], idx)
        \/ AppliedAt(buf, hunk, c[1], c[2], idx)

\* c is weaker than the full windows, no other pair at least as strong as c
\* has a window match, and idx is the first offset at which the windows of
\* c surround the removed lines.
FallbackSite(buf, hunk, c, idx) ==
    /\ TwoSided(hunk, c)
    /\ Strength(c) < Lb(hunk) + La(hunk)
    /\ \A d \in Pairs(hunk) :
           (d # c /\ Strength(d) >= Strength(c)) => ~WindowMatch(buf, hunk, d)
    /\ CleanAt(buf, hunk, c[1], c[2], idx)
    /\ \A e \in 0..(idx - 1) : ~CleanAt(buf, hunk, c[1], c[2], e)

\* The first chunk of the entry has been located and spliced.
FirstSpliced == pc = "chunk" /\ ci = 1 /\ all_patches_applied

\* C11: context fallback on drift.  When no pair of window lengths at least
\* as strong as c has a window match and the shorter windows of c surround
\* the removed lines, the search returns a site found with the windows of
\* c: the first offset where they surround the removed lines, unless they
\* surround the added lines at an offset before it; and the edit is made at
\* the returned site.
C11_ContextFallback ==
    /\ Searched =>
         \A c \in Pairs(Chunk), idx \in Offsets(file_lines) :
           FallbackSite(file_lines, Chunk, c, idx) =>
             /\ start_position # -1
             /\ start_position - c[1] <= idx
             /\ \/ Result = <<idx + c[1], Len(Chunk.removed_lines)>>
                \/ /\ replace_len = Len(Chunk.added_lines)
                   /\ AppliedAt(file_lines, Chunk, c[1], c[2], start_position - c[1])
             /\ (\A e \in 0..(idx - 1) : ~AppliedAt(file_lines, Chunk, c[1], c[2], e))
                => Result = <<idx + c[1], Len(Chunk.removed_lines)>>
    /\ FirstSpliced =>
         \A c \in Pairs(diff_chunks[1]), idx \in Offsets(fs["f"].lines) :
           ( /\ FallbackSite(fs["f"].lines, diff_chunks[1], c, idx)
             /\ \A e \in 0..(idx - 1) :
                    ~AppliedAt(fs["f"].lines, diff_chunks[1], c[1], c[2], e) )
           => file_lines = Replaced(fs["f"].lines, idx + c[1],
                                    Len(diff_chunks[1].removed_lines),
                                    diff_chunks[1].added_lines)

\* The full windows match nowhere, shorter windows surround the removed
\* lines, and the edit has been made between them.
C11_Witness ==
    /\ FirstSpliced
    /\ diff_chunks[1].removed_lines # diff_chunks[1].added_lines
    /\ file_lines # fs["f"].lines
    /\ \E c \in Pairs(diff_chunks[1]), idx \in Offsets(fs["f"].lines) :
        /\ FallbackSite(fs["f"].lines, diff_chunks[1], c, idx)
        /\ c[1] > 0
        /\ c[2] > 0
        /\ start_position = idx + c[1]

\* ------------------------------------------------------------------------
\* Conflicts
\* ------------------------------------------------------------------------
\* The hunk has context on both sides; its full windows lie in buf around a
\* gap that holds neither the removed nor the added lines, and nowhere in
\* buf do they surround the removed or the added lines.
ConflictSite(buf, hunk) ==
    /\ Lb(hunk) > 0
    /\ La(hunk) > 0
    /\ \E idx \in Offsets(buf) :
         /\ SightingAt(buf, hunk, Lb(hunk), La(hunk), idx)
         /\ SubSeq(buf, idx + Lb(hunk) + 1, idx + Lb(hunk) + Len(hunk.removed_lines))
               # hunk.added_lines
    /\ \A idx \in Offsets(buf) :
         /\ ~CleanAt(buf, hunk, Lb(hunk), La(hunk), idx)
         /\ ~AppliedAt(buf, hunk, Lb(hunk), La(hunk), idx)

\* C12: conflict outcome.  When the hunk's context lies in the buffer on
\* both sides of lines that are neither the removed nor the added lines,
\* the search fails, the entry is unresolved and the file on disk is what
\* it was.
C12_ConflictOutcome ==
    /\ (Searched /\ ConflictSite(file_lines, Chunk)) => Result = NoMatch
    /\ ( /\ Len(diff_index) = 1
         /\ pc # "apply" \/ di >= 1
         /\ ConflictSite(head_tree["f"].lines, diff_chunks[1]) )
       => /\ fs = head_tree
          /\ FirstEntryDone => ~patch_applied

\* The handler has returned for an entry whose hunk met foreign lines
\* between its windows, although a weaker window matches cleanly elsewhere.
C12_Witness ==
    /\ Len(diff_index) = 1
    /\ FirstEntryDone
    /\ ~patch_applied
    /\ ConflictSite(head_tree["f"].lines, diff_chunks[1])
    /\ diff_chunks[1].removed_lines # diff_chunks[1].added_lines
    /\ \E c \in Pairs(diff_chunks[1]), idx \in Offsets(head_tree["f"].lines) :
         /\ TwoSided(diff_chunks[1], c)
         /\ CleanAt(head_tree["f"].lines, diff_chunks[1], c[1], c[2], idx)

\* ------------------------------------------------------------------------
\* Sites that occur more than once
\* ------------------------------------------------------------------------
\* The offsets at which the windows of c surround the removed lines.
CleanOffsets(buf, hunk, c) ==
    {idx \in Offsets(buf) : CleanAt(buf, hunk, c[1], c[2], idx)}

\* The search has returned the clean site at pos, found with the k-th
\* combo: no combo before it has a clean site or a sighting.
MatchedWith(k, pos) ==
    /\ Searched
    /\ start_position = pos
    /\ replace_len = Len(Chunk.removed_lines)
    /\ k \in 1..Len(Combos)
    /\ pos - Combos[k][1] \in CleanOffsets(file_lines, Chunk, Combos[k])
    /\ \A m \in 1..(k - 1), idx \in Offsets(file_lines) :
         /\ ~CleanAt(file_lines, Chunk, Combos[m][1], Combos[m][2], idx)
         /\ ~SightingAt(file_lines, Chunk, Combos[m][1], Combos[m][2], idx)

\* C13: edits are applied only at an unambiguous site.  When the search
\* returns a clean site found with a combo, no other offset of the buffer
\* holds that combo's windows around the removed lines.
C13_UnambiguousSite ==
    Searched =>
      \A k \in 1..Len(Combos), pos \in Offsets(file_lines) :
          MatchedWith(k, pos) =>
            CleanOffsets(file_lines, Chunk, Combos[k]) = {pos - Combos[k][1]}

\* ------------------------------------------------------------------------
\* apply() on a tree that holds the commit already
\* ------------------------------------------------------------------------
\* The hunk's added lines lie in buf between its full windows.
HunkInEffect(buf, hunk) ==
    \E idx \in Offsets(buf) : AppliedAt(buf, hunk, Lb(hunk), La(hunk), idx)

\* What the entry asks for is what the tree holds.
EntryInEffect(tree, e) ==
    CASE e.kind = "A" -> Exists(tree, e.b_path)
      [] e.kind = "D" -> ~Exists(tree, e.a_path)
      [] e.kind = "R" -> ~Exists(tree, e.a_path) /\ Exists(tree, e.b_path)
      [] OTHER ->
           /\ Exists(tree, e.b_path)
           /\ LET chunks == _extract_diff_chunks(e.diff)
              IN \A k \in 1..Len(chunks) : HunkInEffect(tree[e.b_path].lines, chunks[k])

AlreadyInEffect(tree, entries) ==
    /\ entries # <<>>
    /\ \A k \in 1..Len(entries) : EntryInEffect(tree, entries[k])

\* C14: replay is safe to re-run.  While apply() runs over a diff all of
\* whose entries have taken effect in the working tree, no step changes a
\* file, and apply() returns success.
C14_SafeRerun ==
    [][ ( /\ InsideApply
          /\ AlreadyInEffect(fs, diff_index)
          /\ (InsideApply \/ pc = "returned")' )
        => /\ fs' = fs
           /\ (pc = "returned")' => patch_applied' ]_vars

\* ------------------------------------------------------------------------
\* Errors of the filesystem
\* ------------------------------------------------------------------------
\* The entry apply() is about to handle raises an error of the filesystem.
EntryRaises == InApply /\ CurrentDiff.kind = "R" /\ RenameRaises

\* C15: filesystem errors are contained to one entry.  The step that
\* handles an entry whose operation raises leaves that entry failed and
\* apply() at the next entry; neither apply() nor the replay loop ends
\* there.
C15_ErrorsContained ==
    [][ EntryRaises => /\ pc' = "apply"
                       /\ di' = di + 1
                       /\ ~patch_applied' ]_vars

\* ------------------------------------------------------------------------
\* Added, deleted and renamed files
\* ------------------------------------------------------------------------
\* apply() is about to handle an entry of the given kind.
Handling(kind) == InApply /\ CurrentDiff.kind = kind

\* C16: Added entry.  When the destination does not exist the step creates
\* it, and its directory, with the recorded content and the entry is
\* resolved; when it exists nothing changes and the entry is unresolved.
C16_AddedEntry ==
    [][ Handling("A") =>
          /\ pc' = "apply"
          /\ di' = di + 1
          /\ IF ~Exists(fs, CurrentDiff.b_path)
             THEN /\ fs' = Put(fs, CurrentDiff.b_path, CurrentDiff.blob)
                  /\ DirOf(CurrentDiff.b_path) \in dirs'
                  /\ patch_applied'
             ELSE /\ fs' = fs
                  /\ ~patch_applied' ]_vars

\* The trees old and new hold the same files outside the paths in ps.
SameOutside(old, new, ps) ==
    /\ DOMAIN old \ ps = DOMAIN new \ ps
    /\ \A p \in DOMAIN old \ ps : new[p] = old[p]

\* C17: Deleted and Renamed entries.  The step resolves the entry exactly
\* when the old path exists; then the old path is gone, the new path of a
\* rename holds the old file, and no other file changes; when the old path
\* is absent nothing changes on disk.
C17_DeletedAndRenamed ==
    [][ (Handling("D") \/ Handling("R")) =>
          /\ pc' = "apply"
          /\ di' = di + 1
          /\ patch_applied' = Exists(fs, CurrentDiff.a_path)
          /\ IF Exists(fs, CurrentDiff.a_path)
             THEN /\ ~Exists(fs', CurrentDiff.a_path)
                  /\ SameOutside(fs, fs', {CurrentDiff.a_path, CurrentDiff.b_path})
                  /\ CurrentDiff.kind = "R" =>
                       /\ Exists(fs', CurrentDiff.b_path)
                       /\ fs'[CurrentDiff.b_path] = fs[CurrentDiff.a_path]
             ELSE fs' = fs ]_vars

\* ------------------------------------------------------------------------
\* generate_combinations
\* ------------------------------------------------------------------------
\* The chunk being searched has no context line on either side.
NoContext == Lb(Chunk) = 0 /\ La(Chunk) = 0

\* C18: a hunk with no context at all is searched with the single combo
\* (0, 0), and is matched at an offset where its removed lines lie in the
\* buffer when there is one.
C18_NoContextHunk ==
    (Searched /\ NoContext) =>
      /\ Combos = << <<0, 0>> >>
      /\ (\E idx \in Offsets(file_lines) : CleanAt(file_lines, Chunk, 0, 0, idx))
         => /\ start_position # -1
            /\ replace_len = Len(Chunk.removed_lines)
            /\ CleanAt(file_lines, Chunk, 0, 0, start_position)

\* The combos tried, as a set.
TriedPairs == {Combos[k] : k \in 1..Len(Combos)}

\* c is a pair no other pair at least as strong as which has a window
\* match, and idx is the first offset where the windows of c surround the
\* removed lines, no offset before it holding the added lines between them.
SurvivingSite(buf, hunk, c, idx) ==
    /\ c \in Pairs(hunk)
    /\ \A d \in Pairs(hunk) :
           (d # c /\ Strength(d) >= Strength(c)) => ~WindowMatch(buf, hunk, d)
    /\ CleanAt(buf, hunk, c[1], c[2], idx)
    /\ \A e \in 0..(idx - 1) :
           /\ ~CleanAt(buf, hunk, c[1], c[2], e)
           /\ ~AppliedAt(buf, hunk, c[1], c[2], e)

\* C19: one-sided anchoring.  For a hunk with context on both sides the
\* combos tried are all the pairs but (0, 0), and a pair that uses one side
\* only locates the hunk where that side's window lies next to the removed
\* lines and no pair at least as strong has a window match.
C19_OneSidedAnchoring ==
    (Searched /\ Lb(Chunk) > 0 /\ La(Chunk) > 0) =>
      /\ TriedPairs = Pairs(Chunk)
      /\ \A c \in Pairs(Chunk), idx \in Offsets(file_lines) :
           ( /\ c[1] = 0 \/ c[2] = 0
             /\ SurvivingSite(file_lines, Chunk, c, idx) )
           => Result = <<idx + c[1], Len(Chunk.removed_lines)>>

\* C19 as amended: for a hunk with context on both sides the combos tried
\* are the pairs that take at least one line from each side; one-sided
\* anchoring is for a hunk with context on one side only, whose combos are
\* all the pairs but (0, 0), and which is located where a window of that
\* side lies next to the removed lines and no stronger window matches.
C19_AnchoringOnTheSidesWithContext ==
    Searched =>
      /\ (Lb(Chunk) > 0 /\ La(Chunk) > 0) =>
           TriedPairs = (1..Lb(Chunk)) \X (1..La(Chunk))
      /\ ((Lb(Chunk) = 0) # (La(Chunk) = 0)) =>
           /\ TriedPairs = Pairs(Chunk)
           /\ \A c \in Pairs(Chunk), idx \in Offsets(file_lines) :
                SurvivingSite(file_lines, Chunk, c, idx)
                => Result = <<idx + c[1], Len(Chunk.removed_lines)>>

\* A hunk with context after it only has been located with the first of
\* its two after-context lines, the two together lying nowhere.
C19_Witness ==
    /\ Searched
    /\ Lb(Chunk) = 0
    /\ La(Chunk) = 2
    /\ Chunk.removed_lines # Chunk.added_lines
    /\ \E idx \in Offsets(file_lines) :
         /\ SurvivingSite(file_lines, Chunk, <<0, 1>>, idx)
         /\ Result = <<idx, Len(Chunk.removed_lines)>>

\* ------------------------------------------------------------------------
\* Sightings inside one combo
\* ------------------------------------------------------------------------
\* The search reaches the k-th of the combos: no combo before it has a
\* window match.
Reached(combos, k) ==
    \A m \in 1..(k - 1) : ~WindowMatch(file_lines, Chunk, combos[m])

\* With the windows of c, e is a sighting, idx after it is the first clean
\* site, and no offset before idx is taken as already applied.
CleanAfterSighting(c, e, idx) ==
    /\ e < idx
    /\ CleanAt(file_lines, Chunk, c[1], c[2], idx)
    /\ SightingAt(file_lines, Chunk, c[1], c[2], e)
    /\ \A x \in 0..(idx - 1) :
         /\ ~CleanAt(file_lines, Chunk, c[1], c[2], x)
         /\ AppliedAt(file_lines, Chunk, c[1], c[2], x)
              => SightingAt(file_lines, Chunk, c[1], c[2], x)

\* C20: a conflict sighting does not end the scan of the current combo.
\* When the combo the search has reached has a sighting at an offset and a
\* clean site at a later one, the search returns the clean site.
C20_ScanGoesOnAfterSighting ==
    Searched =>
      LET combos == Combos
      IN \A k \in 1..Len(combos), idx \in Offsets(file_lines), e \in Offsets(file_lines) :
           (CleanAfterSighting(combos[k], e, idx) /\ Reached(combos, k))
           => Result = <<idx + combos[k][1], Len(Chunk.removed_lines)>>

\* A sighting, a clean site after it at the same combo, and the search has
\* returned the clean site.
C20_Witness ==
    /\ Searched
    /\ Chunk.removed_lines # Chunk.added_lines
    /\ LET combos == Combos
       IN \E k \in 1..Len(combos), idx \in Offsets(file_lines), e \in Offsets(file_lines) :
            /\ CleanAfterSighting(combos[k], e, idx)
            /\ Reached(combos, k)
            /\ combos[k][1] > 0
            /\ combos[k][2] > 0
            /\ Result = <<idx + combos[k][1], Len(Chunk.removed_lines)>>

\* ------------------------------------------------------------------------
\* _search_context as a function
\* ------------------------------------------------------------------------
\* The step is a call of _search_context.
SearchStep == pc = "chunk" /\ pc' = "searched"

\* The call about to be made has the buffer and the hunk of the call made
\* before it: the second chunk is the first again and the buffer is still
\* the file that was read.
SameCallAgain ==
    /\ ci = 1
    /\ Len(diff_chunks) = 2
    /\ diff_chunks[2] = diff_chunks[1]
    /\ file_lines = fs["f"].lines

TheDiffBlock == diff_index[1].diff[1]

\* The lines from..to of the block hold no line of a tag outside tags.
RunOf(block, from, to, tags) == \A k \in from..to : block[k].tag \in tags

\* The hunk is the lines b..a of the block: context lines b..s-1, the '+'
\* and '-' lines s..e with no context line among them, context lines e+1..a.
ShapedAt(block, hunk, b, s, e, a) ==
    /\ b <= s /\ s <= e + 1 /\ e <= a
    /\ RunOf(block, b, s - 1, {" ", "\\"})
    /\ RunOf(block, s, e, {"+", "-", "\\"})
    /\ RunOf(block, e + 1, a, {" ", "\\"})
    /\ hunk.before_context = Part(block, b, s - 1, {" "})
    /\ hunk.removed_lines = Part(block, s, e, {"-"})
    /\ hunk.added_lines = Part(block, s, e, {"+"})
    /\ hunk.after_context = Part(block, e + 1, a, {" "})

Shaped(block, hunk) ==
    \E b \in 1..(Len(block) + 1) :
      \E s \in b..(Len(block) + 1) :
        \E e \in (s - 1)..Len(block) :
          \E a \in e..Len(block) : ShapedAt(block, hunk, b, s, e, a)

\* C22: every hunk the parser produces has the shape context*,
\* (removed|added)*, context*: its removed and added lines are the '-' and
\* '+' lines of one run of the diff text that holds no context line, its
\* before_context is the context lines just before that run and its
\* after_context the context lines just after it.
C22_HunkShape ==
    diff_chunks # <<>> =>
        \A k \in 1..Len(diff_chunks) : Shaped(TheDiffBlock, diff_chunks[k])

\* A block of two edit runs with context before and between them and a
\* marker line after a line of a run was parsed into two hunks.
C22_Witness ==
    /\ Len(diff_chunks) = 2
    /\ diff_chunks[1].before_context # <<>>
    /\ diff_chunks[1].after_context # <<>>
    /\ diff_chunks[2].before_context # <<>>
    /\ \E k \in 2..(Len(TheDiffBlock) - 1) :
          /\ TheDiffBlock[k].tag = "\\"
          /\ TheDiffBlock[k - 1].tag \in {"+", "-"}

\* ------------------------------------------------------------------------
\* _extract_diff_chunks: the no-newline marker lines
\* ------------------------------------------------------------------------
\* Line k of the block is a marker line.
MarkerAt(block, k) == k \in 1..Len(block) /\ block[k].tag = "\\"

\* C23: marker lines are transparent to parsing.  The hunks parsed from a
\* block that holds lines beginning with a backslash, at any positions,
\* are the hunks parsed from the block without those lines: the same
\* contexts, removed and added lines and the same splits.
C23_MarkersTransparent ==
    diff_chunks # <<>> => diff_chunks = ParseBlock(TheBlock)

\* A block was parsed that has a marker line between two lines of an edit
\* run and a marker line right after a context line.
C23_Witness ==
    /\ diff_chunks # <<>>
    /\ \E k \in 2..(Len(TheDiffBlock) - 1) :
          /\ MarkerAt(TheDiffBlock, k)
          /\ TheDiffBlock[k - 1].tag \in {"+", "-"}
          /\ TheDiffBlock[k + 1].tag \in {"+", "-"}
    /\ \E k \in 2..Len(TheDiffBlock) :
          /\ MarkerAt(TheDiffBlock, k)
          /\ TheDiffBlock[k - 1].tag = " "

\* ------------------------------------------------------------------------
\* The replay loop: bookkeeping by marker
\* ------------------------------------------------------------------------
\* The loop takes the next commit and hands its diff to apply().
Attempt == AtLoopTop /\ pc' = "apply"

\* The hash of h comes right after a marker somewhere in the message.
FollowsMarker(message, h) ==
    \E k \in 1..(Len(message) - 1) :
        message[k] = MARKER /\ message[k + 1] = HashText(h)

\* The message ends with a marker and the hash of h.
EndsWithMarker(message, h) ==
    \E k \in 1..Len(message) :
        /\ message[k] = MARKER
        /\ Strip(SubSeq(message, k + 1, Len(message))) = <<HashText(h)>>

\* The step records one commit, marked with the hash of the commit the
\* loop is at, after apply() reported success.
RecordsOnSuccess ==
    /\ pc = "returned"
    /\ patch_applied
    /\ Len(log') = Len(log) + 1
    /\ SubSeq(log', 1, Len(log)) = log
    /\ log'[Len(log')].orig = commit_hash
    /\ EndsWithMarker(log'[Len(log')].message, commit_hash)

AtMostOnce ==
    \A j, k \in 1..Len(log) : log[j].orig = log[k].orig => j = k

\* C24: replay bookkeeping.  A source commit whose hash follows the marker
\* in a commit message on the sync branch is not attempted; the branch
\* changes only by a commit recorded after apply() reported success; each
\* source commit is recorded at most once; and the loop goes from older to
\* newer commits.
C24_ReplayBookkeeping ==
    [][ /\ Attempt =>
            \A k \in 1..Len(log) : ~FollowsMarker(log[k].message, commit_hash')
        /\ log' # log => RecordsOnSuccess
        /\ AtMostOnce'
        /\ commit_hash' # commit_hash => commit_hash' > commit_hash ]_vars

\* C24 as amended: the same, the commit that is not attempted being the one
\* whose hash is all that follows the last marker of a message on the
\* branch.
C24_ReplayBookkeepingLastMarker ==
    [][ /\ Attempt =>
            \A k \in 1..Len(log) : ~EndsWithMarker(log[k].message, commit_hash')
        /\ log' # log => RecordsOnSuccess
        /\ AtMostOnce'
        /\ commit_hash' # commit_hash => commit_hash' > commit_hash ]_vars

\* The branch held the replay of the oldest commit, whose message quotes
\* the marker of the next one; the loop skipped the oldest commit and has
\* recorded the next one.
C24_Witness ==
    /\ pc = "committed"
    /\ commit_hash = 2
    /\ applied_commits = {<<HashText(1)>>}
    /\ Len(log) = 2
    /\ log[1].orig = 1
    /\ FollowsMarker(log[1].message, 2)
    /\ EndsWithMarker(log[2].message, 2)

\* ------------------------------------------------------------------------
\* _search_context: what a returned site holds
\* ------------------------------------------------------------------------
\* Windows of i and j lines, one of them not empty, lie in buf right before
\* pos and right after pos + n.
AnchoredAt(buf, hunk, pos, n) ==
    \E i \in 0..Lb(hunk), j \in 0..La(hunk) :
        /\ i + j >= 1
        /\ Win(buf, pos - i, BeforeWindow(hunk, i))
        /\ Win(buf, pos + n, AfterWindow(hunk, j))

\* The n lines of buf from pos are the removed lines or the added lines.
HoldsTheEdit(buf, hunk, pos, n) ==
    \/ n = Len(hunk.removed_lines) /\ Win(buf, pos, hunk.removed_lines)
    \/ n = Len(hunk.added_lines) /\ Win(buf, pos, hunk.added_lines)

\* C25: soundness of a success outcome.  When the search returns (pos, n)
\* with pos # -1, windows that take at least one context line lie in the
\* buffer right before pos and right after pos + n, the n lines from pos
\* are the hunk's removed lines or its added lines, and the caller's next
\* step replaces those n lines, and nothing else, by the added lines.
C25_SoundSuccess ==
    [][ (Searched /\ start_position # -1) =>
          /\ AnchoredAt(file_lines, Chunk, start_position, replace_len)
          /\ HoldsTheEdit(file_lines, Chunk, start_position, replace_len)
          /\ file_lines' = SubSeq(file_lines, 1, start_position)
                             \o Chunk.added_lines
                             \o SubSeq(file_lines, start_position + replace_len + 1,
                                       Len(file_lines)) ]_vars

\* A hunk that replaces a line, with context on both sides, was located
\* past the start of a buffer in which its full windows do not lie.
C25_Witness ==
    /\ Searched
    /\ start_position > 0
    /\ Chunk.removed_lines # <<>>
    /\ Chunk.added_lines # <<>>
    /\ Chunk.removed_lines # Chunk.added_lines
    /\ Lb(Chunk) > 0 /\ La(Chunk) > 0
    /\ replace_len = Len(Chunk.removed_lines)
    /\ Win(file_lines, start_position, Chunk.removed_lines)
    /\ ~CleanAt(file_lines, Chunk, Lb(Chunk), La(Chunk), start_position - Lb(Chunk))

\* ------------------------------------------------------------------------
\* dry_run
\* ------------------------------------------------------------------------
\* C26: dry run changes nothing.  With dry_run set, no step of apply(),
\* whatever the entry (added, deleted, renamed, modified), changes a file
\* or a directory of the target tree.
C26_DryRunChangesNothing ==
    [][ dry_run => (fs' = fs /\ dirs' = dirs) ]_vars

====
